---- MODULE Spec2Model ----
(***************************************************************************)
(* pecapiku: a file-persisted memoization layer.                           *)
(*                                                                         *)
(* The model covers the blob store (cache_access.py), the keyed store and  *)
(* its scoped sessions (cache_dict.py), the single-value cache             *)
(* (single_value_cache.py) and the read-execute-write protocol             *)
(* (base_cache.py).  The pickle codec is an opaque round trip: a file      *)
(* holds the value that was dumped into it.                                *)
(***************************************************************************)
EXTENDS Naturals, Sequences, FiniteSets, TLC

VARIABLES
    cache_dir,  \* config.cache_dir (config.py)
    files,      \* the file system: location -> content of the file there
    sess,       \* the CacheDict objects used as context managers
    wrapper,    \* the callable returned by decorate(), or NoWrapper
    last,       \* what the last operation did and returned to its caller
    nops        \* the number of operations performed so far

vars == <<cache_dir, files, sess, wrapper, last, nops>>

\* The number of operations a behaviour of the model performs.
MaxOps == 5

-----------------------------------------------------------------------------
(* Values, keys and mappings *)

\* An instance of NoCache (no_cache.py): all instances are equal to each other
\* and to nothing else, so one value stands for them.
NoCache == "<NoCache object>"

\* Python's None, where an argument is optional.
None == "None"

\* Marks a key that is not in a dict.
Missing == "<missing>"

\* Results a wrapped callable can return and values a session body can store.
\* "null" is Python's None as a cached value (falsy, but a genuine value).
Values == {"null", "v1"}

\* What a dict can hold under a key: a value or an instance of NoCache.
Cells == Values \cup {NoCache}

\* get_hash([func.__name__, args, kwargs]) for the calls f("a") and f("b").
HashA == "[\"f\",[\"a\"],{}]"

HashB == "[\"f\",[\"b\"],{}]"

\* Every key the model's sessions and decorated calls can produce.
AllKeys == {"k_a", "k_b", HashA, HashB}

\* The keys a session body uses.
SessKeys == {"k_a", "k_b"}

\* A MyDefaultDict(NoCache): for each key its cell, or Missing.
Maps == [AllKeys -> Cells \cup {Missing}]

EmptyMap == [k \in AllKeys |-> Missing]

\* isinstance(val, NoCache)
IsNoCache(val) == val = NoCache

-----------------------------------------------------------------------------
(* Paths and the file system *)

\* The process's working directory and the two directories config.cache_dir
\* takes in the model.
Cwd == "/cwd"

DEFAULT_CACHE_DIR == "/tmp/pecapiku"

Dirs == {DEFAULT_CACHE_DIR, Cwd}

COMP_CACHE_FILE_NAME == "_comp_cache.pkl"

\* dir / COMP_CACHE_FILE_NAME
Join(dir) == IF dir = Cwd THEN "/cwd/_comp_cache.pkl" ELSE "/tmp/pecapiku/_comp_cache.pkl"

\* The files of the model: one file name in each directory.
Locs == {Join(d) : d \in Dirs}

\* The paths a caller passes: the relative file name or an absolute path.
Paths == {COMP_CACHE_FILE_NAME} \cup Locs

is_absolute(file_path) == file_path \in Locs

\* The file the operating system opens for a path: a relative path is taken
\* from the working directory.
OsLoc(file_path) == IF is_absolute(file_path) THEN file_path ELSE Join(Cwd)

resolve_filepath(file_path, dir) ==
    IF ~is_absolute(file_path) THEN Join(dir) ELSE file_path

\* A file's content: no file, a pickled MyDefaultDict, a pickle of another
\* type, or bytes that do not unpickle (a dump that failed half way).
NoFile == [kind |-> "nofile", map |-> EmptyMap]

OtherFile == [kind |-> "other", map |-> EmptyMap]

CorruptFile == [kind |-> "corrupt", map |-> EmptyMap]

DictFile(m) == [kind |-> "dict", map |-> m]

\* _initialize_cache: the unpickled content, NoCache() for FileNotFoundError
\* (kind "nofile" stands for it), any other error propagates.
initialize_cache(content) ==
    IF content.kind = "corrupt"
    THEN [raised |-> "UnpicklingError", result |-> content]
    ELSE [raised |-> None, result |-> content]

\* A variant of initialize_cache_dict that always starts a new mapping.
initialize_cache_dict_new(content) ==
    LET r == initialize_cache(content) IN
    IF r.raised # None THEN [raised |-> r.raised, map |-> EmptyMap]
    ELSE IF r.result.kind \notin {"nofile", "dict"}
    THEN [raised |-> "ValueError", map |-> EmptyMap]
    ELSE [raised |-> None, map |-> EmptyMap]

\* initialize_cache_dict: a new MyDefaultDict(NoCache) when there is no file,
\* ValueError when the file holds anything but a MyDefaultDict.
initialize_cache_dict(content) ==
    LET r == initialize_cache(content) IN
    IF r.raised # None THEN [raised |-> r.raised, map |-> EmptyMap]
    ELSE IF r.result.kind = "nofile" THEN [raised |-> None, map |-> EmptyMap]
    ELSE IF r.result.kind # "dict" THEN [raised |-> "ValueError", map |-> EmptyMap]
    ELSE [raised |-> None, map |-> r.result.map]

\* How one update_cache goes: it succeeds, open() fails and leaves the file as
\* it was, or pickle.dump fails after open() truncated the file.
IoModes == {"ok", "open_fails", "dump_fails"}

\* A variant of update_cache that keeps the entries of the file which the
\* mapping lacks.
update_cache_merge(fs, m, loc, io) ==
    [files |-> [fs EXCEPT ![loc] =
                    DictFile([k \in AllKeys |-> IF m[k] # Missing THEN m[k]
                                                ELSE fs[loc].map[k]])],
     raised |-> None]

\* update_cache(cache, file_path) for a MyDefaultDict: the files afterwards and
\* the error raised.
update_cache(fs, m, loc, io) ==
    IF io = "ok" THEN [files |-> [fs EXCEPT ![loc] = DictFile(m)], raised |-> None]
    ELSE IF io = "open_fails" THEN [files |-> fs, raised |-> "OSError"]
    ELSE [files |-> [fs EXCEPT ![loc] = CorruptFile], raised |-> "PicklingError"]

-----------------------------------------------------------------------------
(* Access policies *)

\* An access string as the set of its letters: 'r' in access is "r" \in access.
Access == (SUBSET {"r", "e", "w"}) \ {{}}

\* access=None, which `access or 'rew'` treats like the empty string.
NoAccess == {}

\* access == 'e'
IsExecuteOnly(access) == access = {"e"}

-----------------------------------------------------------------------------
(* What an operation reports *)

\* What one invocation of the wrapped callable f does: it raises, or it
\* returns a value, which may be an instance of NoCache.
Returns(v) == [raises |-> FALSE, ret |-> v]

Raises == [raises |-> TRUE, ret |-> None]

FuncBehaviours == {Raises} \cup {Returns(v) : v \in Cells}

\* The record kept in last.  op: the operation; who: the object or class it
\* ran on; outcome: "ok" or the error that reached the caller; arg, key: the
\* argument and key it was given; val: the value it returned; events: its
\* storage events in their order; loc, map: the file and the mapping of its
\* load or flush; before: what was at loc when it began; fb, io: what the
\* wrapped callable and the file system were set to do during it; prior: the
\* mapping in the file at loc when an exit began.
Report(op, who, outcome) ==
    [op |-> op, who |-> who, outcome |-> outcome, arg |-> None, key |-> None,
     val |-> None, events |-> <<>>, loc |-> None, map |-> EmptyMap,
     before |-> None, fb |-> Returns("v1"), io |-> "ok",
     outer_key |-> None, inner_key |-> None, prior |-> EmptyMap]

NoReport == Report("init", None, "ok")

\* The element of a set of one element.
The(S) == CHOOSE x \in S : TRUE

\* How often event e occurs in a sequence of events.
Count(events, e) == Cardinality({i \in DOMAIN events : events[i] = e})

\* The first position of event e in a sequence of events, 0 if there is none.
First(events, e) ==
    IF \E i \in DOMAIN events : events[i] = e
    THEN CHOOSE i \in DOMAIN events :
            /\ events[i] = e
            /\ \A j \in DOMAIN events : events[j] = e => i <= j
    ELSE 0

-----------------------------------------------------------------------------
(* config.py *)

\* Config.set_cache_dir
SetCacheDir(dir) ==
    /\ nops < MaxOps
    /\ dir # cache_dir
    /\ cache_dir' = dir
    /\ nops' = nops + 1
    /\ last' = [Report("set_cache_dir", "config", "ok") EXCEPT !.arg = dir]
    /\ UNCHANGED <<files, sess, wrapper>>

-----------------------------------------------------------------------------
(* CacheDict as a context manager (cache_dict.py) *)

\* The CacheDict objects of the model.
Sessions == {"s1", "s2"}

\* CacheDict.__init__: file_path and access as given, cache_dict = None.
\* open is the position of the caller: inside the with block or not; obj is
\* the mapping object last handed to a body (the body keeps its reference),
\* has_dict says whether self.cache_dict still refers to it.
NewCacheDict(file_path, access) ==
    [file_path |-> file_path, access |-> access, open |-> FALSE,
     has_dict |-> FALSE, obj |-> EmptyMap]

\* CacheDict.__enter__ of an object with this access and path: the error
\* raised, self.file_path afterwards, the mapping returned and the file read.
enter(fs, access, file_path, dir) ==
    LET path == resolve_filepath(file_path, dir)
        r == initialize_cache_dict(fs[OsLoc(path)])
    IN
    IF "r" \in access
    THEN [raised |-> r.raised, file_path |-> path, map |-> r.map,
          events |-> <<"load">>, loc |-> OsLoc(path)]
    ELSE [raised |-> None, file_path |-> file_path, map |-> EmptyMap,
          events |-> <<>>, loc |-> None]

\* A with block is entered.  When __enter__ raises, the body does not run and
\* __exit__ is not called.
Enter(s) ==
    LET c == sess[s]
        e == enter(files, c.access, c.file_path, cache_dir)
    IN
    /\ nops < MaxOps
    /\ ~c.open
    /\ sess' = [sess EXCEPT ![s].file_path = e.file_path,
                            ![s].open = e.raised = None,
                            ![s].has_dict = IF e.raised = None THEN TRUE ELSE @,
                            ![s].obj = IF e.raised = None THEN e.map ELSE @]
    /\ last' = [Report("enter", s, IF e.raised = None THEN "ok" ELSE e.raised)
                    EXCEPT !.events = e.events, !.loc = e.loc, !.map = e.map,
                           !.before = IF e.loc = None THEN None ELSE files[e.loc].kind]
    /\ nops' = nops + 1
    /\ UNCHANGED <<cache_dir, files, wrapper>>

\* defaultdict.__getitem__ of a MyDefaultDict(NoCache): a missing key is given
\* the value NoCache() and that entry is added to the dict.
getitem(m, key) ==
    IF m[key] = Missing
    THEN [val |-> NoCache, map |-> [m EXCEPT ![key] = NoCache]]
    ELSE [val |-> m[key], map |-> m]

\* dict.__setitem__
setitem(m, key, value) == [m EXCEPT ![key] = value]

\* The body of a with block reads cache_dict[key] (or cache_dict.get(key)).
GetItem(s, key) ==
    LET r == getitem(sess[s].obj, key) IN
    /\ nops < MaxOps
    /\ sess[s].open
    /\ sess' = [sess EXCEPT ![s].obj = r.map]
    /\ last' = [Report("getitem", s, "ok") EXCEPT !.key = key, !.val = r.val]
    /\ nops' = nops + 1
    /\ UNCHANGED <<cache_dir, files, wrapper>>

\* The body of a with block assigns cache_dict[key] = value.
SetItem(s, key, value) ==
    /\ nops < MaxOps
    /\ sess[s].open
    /\ sess' = [sess EXCEPT ![s].obj = setitem(@, key, value)]
    /\ last' = [Report("setitem", s, "ok") EXCEPT !.key = key, !.arg = value]
    /\ nops' = nops + 1
    /\ UNCHANGED <<cache_dir, files, wrapper>>

\* A variant of exit that clears the mapping before it writes it.
exit_clears_first(fs, access, file_path, m, io) ==
    LET u == update_cache(fs, EmptyMap, OsLoc(file_path), io) IN
    IF "w" \in access
    THEN [files |-> u.files, raised |-> u.raised, events |-> <<"flush">>,
          cleared |-> u.raised = None]
    ELSE [files |-> fs, raised |-> None, events |-> <<>>, cleared |-> TRUE]

\* CacheDict.__exit__ on the mapping m of an object with this access and path:
\* the files afterwards, the error __exit__ raised, whether update_cache ran
\* and whether the two clearing lines after it were reached.
exit(fs, access, file_path, m, io) ==
    LET u == update_cache(fs, m, OsLoc(file_path), io) IN
    IF "w" \in access
    THEN [files |-> u.files, raised |-> u.raised, events |-> <<"flush">>,
          cleared |-> u.raised = None]
    ELSE [files |-> fs, raised |-> None, events |-> <<>>, cleared |-> TRUE]

\* The with block is left, by the end of the body or by an error of the body.
\* __exit__ returns None, so the body's error propagates, unless __exit__
\* itself raises: then that error reaches the caller.
Exit(s, body, io) ==
    LET c == sess[s]
        x == exit(files, c.access, c.file_path, c.obj, io)
    IN
    /\ nops < MaxOps
    /\ c.open
    /\ "w" \notin c.access => io = "ok"
    /\ files' = x.files
    /\ sess' = [sess EXCEPT ![s].open = FALSE,
                            ![s].has_dict = IF x.cleared THEN FALSE ELSE @,
                            ![s].obj = IF x.cleared THEN EmptyMap ELSE @]
    /\ last' = [Report("exit", s, IF x.raised # None THEN x.raised
                                   ELSE IF body = "raised" THEN "BodyError" ELSE "ok")
                    EXCEPT !.arg = body, !.events = x.events, !.io = io,
                           !.loc = OsLoc(c.file_path), !.map = c.obj,
                           !.before = files[OsLoc(c.file_path)].kind,
                           !.prior = files[OsLoc(c.file_path)].map]
    /\ nops' = nops + 1
    /\ UNCHANGED <<cache_dir, wrapper>>

\* CacheDict.get(key) on an object with this path: the error raised, the
\* value returned (val) or, when a MyDefaultDict is returned, that mapping
\* (map).  _initialize_cache gives NoCache() for a file that does not exist
\* and NoCache is not subscriptable; a pickle of another type (a list) cannot
\* be indexed by the keys of the model either.
get(fs, file_path, key, dir) ==
    LET r == initialize_cache(fs[OsLoc(resolve_filepath(file_path, dir))]) IN
    IF r.raised # None
    THEN [raised |-> r.raised, val |-> None, map |-> EmptyMap]
    ELSE IF key = None
    THEN [raised |-> None,
          val |-> IF r.result.kind = "nofile" THEN NoCache ELSE None,
          map |-> r.result.map]
    ELSE IF r.result.kind # "dict"
    THEN [raised |-> "TypeError", val |-> None, map |-> EmptyMap]
    ELSE [raised |-> None, val |-> getitem(r.result.map, key).val, map |-> EmptyMap]

\* obj.get(key) is called on a CacheDict object, inside or outside a with
\* block; self.file_path and self.cache_dict are not assigned.
Get(s, key) ==
    /\ nops < MaxOps
    /\ \E g \in {get(files, sess[s].file_path, key, cache_dir)} :
        last' = [Report("get", s, IF g.raised = None THEN "ok" ELSE g.raised)
                    EXCEPT !.key = key, !.val = g.val, !.map = g.map,
                           !.loc = OsLoc(resolve_filepath(sess[s].file_path, cache_dir)),
                           !.before = files[OsLoc(resolve_filepath(sess[s].file_path,
                                                                   cache_dir))].kind]
    /\ nops' = nops + 1
    /\ UNCHANGED <<cache_dir, files, sess, wrapper>>

-----------------------------------------------------------------------------
(* Classes (base_cache.py, cache_dict.py, single_value_cache.py) *)

Classes == {"CacheDict", "SingleValueCache"}

\* The methods BaseCache declares with @abstractmethod.
AbstractMethods ==
    {"_get_cache_val", "_put_cache_val", "_key_func", "_decorate", "_get_default_file_path"}

\* The names each class body defines.
Defines(cls) ==
    IF cls = "CacheDict"
    THEN {"_get_default_file_path", "__init__", "__call__", "_get_cache_val",
          "_put_cache_val", "_key_func", "_decorate", "decorate", "__enter__",
          "__exit__", "get"}
    ELSE {"__init__", "__call__", "get_cache_val", "put_cache_val", "key_func",
          "_decorate", "get", "decorate"}

\* cls(file_path, access): ABCMeta refuses to instantiate a class that leaves
\* an abstract method without an override.
instantiate(cls) ==
    IF AbstractMethods \ Defines(cls) # {} THEN "TypeError" ELSE None

\* A variant of get_default_file_path in which every class has the default
\* path of CacheDict.
get_default_file_path_any(cls) == [raised |-> None, path |-> COMP_CACHE_FILE_NAME]

\* cls._get_default_file_path(): CacheDict returns COMP_CACHE_FILE_NAME; a
\* class without an override runs BaseCache's body.
get_default_file_path(cls) ==
    IF "_get_default_file_path" \in Defines(cls)
    THEN [raised |-> None, path |-> COMP_CACHE_FILE_NAME]
    ELSE [raised |-> "NotImplementedError", path |-> None]

-----------------------------------------------------------------------------
(* Keys of decorated calls (cache_dict.py) *)

\* The arguments x of the calls f(x).
Args == {"a", "b"}

\* The inner_key expressions of the model.
InnerKeys == {"'k_' + x"}

\* The outer_key constants of the model.
OuterKeys == {"k_a"}

\* parse_key for an expression over the parameter x of f, evaluated with
\* getcallargs(f, x).
parse_key(inner_key, arg) == IF arg = "a" THEN "k_a" ELSE "k_b"

\* get_hash([func.__name__, func_args, func_kwargs]) of the function f.
get_hash(arg) == IF arg = "a" THEN HashA ELSE HashB

\* A variant of key_func that ignores the outer and the inner key.
key_func_hash_only(outer_key, inner_key, arg) == get_hash(arg)

\* CacheDict._key_func
key_func(outer_key, inner_key, arg) ==
    IF outer_key # None THEN outer_key
    ELSE IF inner_key # None THEN parse_key(inner_key, arg)
    ELSE get_hash(arg)

-----------------------------------------------------------------------------
(* decorate (base_cache.py, cache_dict.py, single_value_cache.py) *)

NoWrapper == [defined |-> FALSE]

\* The closure `decorated`: the class, the resolved path, the access and keys.
Wrapper(cls, file_path, access, outer_key, inner_key) ==
    [defined |-> TRUE, cls |-> cls, file_path |-> file_path, access |-> access,
     outer_key |-> outer_key, inner_key |-> inner_key]

\* cls.decorate(f, file_path=..., access=..., outer_key=..., inner_key=...)
\* called on the class: CacheDict.decorate or SingleValueCache.decorate, then
\* BaseCache.decorate, then cls._decorate.  The error raised, or the wrapper.
decorate(cls, file_path, access, outer_key, inner_key, dir) ==
    LET d == get_default_file_path(cls)
        path == IF file_path # None THEN file_path ELSE d.path
        acc == IF access # NoAccess THEN access ELSE {"r", "e", "w"}
    IN
    IF cls = "CacheDict" /\ outer_key # None /\ inner_key # None
    THEN [raised |-> "ValueError", wrapper |-> NoWrapper]
    ELSE IF file_path = None /\ d.raised # None
    THEN [raised |-> d.raised, wrapper |-> NoWrapper]
    ELSE IF cls = "SingleValueCache" /\ path = None
    THEN [raised |-> "ValueError", wrapper |-> NoWrapper]
    ELSE [raised |-> None,
          wrapper |-> Wrapper(cls, resolve_filepath(path, dir), acc,
                              IF cls = "CacheDict" THEN outer_key ELSE None,
                              IF cls = "CacheDict" THEN inner_key ELSE None)]

Decorate(cls, file_path, access, outer_key, inner_key) ==
    LET d == decorate(cls, file_path, access, outer_key, inner_key, cache_dir) IN
    /\ nops < MaxOps
    /\ ~wrapper.defined
    /\ cls = "SingleValueCache" => outer_key = None /\ inner_key = None
    /\ wrapper' = d.wrapper
    /\ last' = [Report("decorate", cls, IF d.raised = None THEN "ok" ELSE d.raised)
                    EXCEPT !.arg = file_path, !.outer_key = outer_key,
                           !.inner_key = inner_key]
    /\ nops' = nops + 1
    /\ UNCHANGED <<cache_dir, files, sess>>

-----------------------------------------------------------------------------
(* The read-execute-write protocol (base_cache.py) *)

\* func(*func_args, **func_kwargs): f does not touch the cache files.
call_func(fs, fb) ==
    [raised |-> IF fb.raises THEN "FuncError" ELSE None, ret |-> fb.ret, files |-> fs]

\* CacheDict._get_cache_val: the file is loaded and checked once more, the
\* result is dropped, and the value comes from self.cache_dict[key].
get_cache_val(fs, file_path, m, key) ==
    LET r == initialize_cache_dict(fs[OsLoc(file_path)])
        g == getitem(m, key)
    IN
    IF r.raised # None
    THEN [raised |-> r.raised, val |-> NoCache, map |-> m, events |-> <<"load">>]
    ELSE [raised |-> None, val |-> g.val, map |-> g.map, events |-> <<"load", "lookup">>]

\* CacheDict._put_cache_val
put_cache_val(m, key, value) == setitem(m, key, value)

\* A variant of was_read that is never set.
was_read_never(val) == FALSE

\* A variant of was_read by truth value (`if val:`): the falsy value "null"
\* is not taken as read.
was_read_truthy(val) == val \notin {NoCache, "null"}

\* A variant of was_read that is always set.
was_read_always(val) == TRUE

\* was_read, set when the value read is not an instance of NoCache.
was_read(val) == ~IsNoCache(val)

\* A variant of miss_not_permitted that never refuses.
miss_never_refused(val, access) == FALSE

\* The condition under which _read_execute_write raises ValueError.
miss_not_permitted(val, access) == IsNoCache(val) /\ "e" \notin access

\* A variant of read_execute_write that invokes the callable first and looks
\* the key up afterwards.
read_execute_write_speculative(fs, file_path, m, access, key, fb) ==
    The({
        [raised |-> f.raised, val |-> f.ret,
         map |-> IF f.raised = None /\ "w" \in access
                 THEN put_cache_val(m, key, f.ret) ELSE m,
         files |-> f.files,
         events |-> <<"compute">>
                    \o (IF f.raised = None /\ "w" \in access THEN <<"put">> ELSE <<>>)
                    \o (IF "r" \in access THEN <<"load", "lookup">> ELSE <<>>)]
        : f \in {call_func(fs, fb)}})

\* BaseCache._read_execute_write of a CacheDict whose self.cache_dict is m:
\* the error raised, the value returned, cache_dict and the files afterwards,
\* and the events in their order ("hit" follows a lookup that found a value
\* other than NoCache).
read_execute_write(fs, file_path, m, access, key, fb) ==
    LET f == call_func(fs, fb) IN
    IF IsExecuteOnly(access)
    THEN [raised |-> f.raised, val |-> f.ret, map |-> m, files |-> f.files,
          events |-> <<"compute">>]
    ELSE The({
        LET ev == IF "r" \in access /\ rd.raised = None /\ ~IsNoCache(rd.val)
                  THEN rd.events \o <<"hit">> ELSE rd.events
        IN
        IF rd.raised # None
        THEN [raised |-> rd.raised, val |-> None, map |-> rd.map, files |-> fs,
              events |-> ev]
        ELSE IF miss_not_permitted(rd.val, access)
        THEN [raised |-> "ValueError", val |-> None, map |-> rd.map, files |-> fs,
              events |-> ev]
        ELSE IF "e" \in access /\ ~was_read(rd.val)
        THEN IF f.raised # None
             THEN [raised |-> f.raised, val |-> None, map |-> rd.map,
                   files |-> f.files, events |-> ev \o <<"compute">>]
             ELSE IF "w" \in access /\ ~was_read(rd.val) /\ ~IsNoCache(f.ret)
             THEN [raised |-> None, val |-> f.ret,
                   map |-> put_cache_val(rd.map, key, f.ret),
                   files |-> f.files, events |-> ev \o <<"compute", "put">>]
             ELSE [raised |-> None, val |-> f.ret, map |-> rd.map,
                   files |-> f.files, events |-> ev \o <<"compute">>]
        ELSE [raised |-> None, val |-> rd.val, map |-> rd.map, files |-> fs,
              events |-> ev]
        : rd \in {IF "r" \in access THEN get_cache_val(fs, file_path, m, key)
                  ELSE [raised |-> None, val |-> NoCache, map |-> m, events |-> <<>>]}})

\* The closure `decorated` of CacheDict._decorate: a new instance, the with
\* block around _read_execute_write, and the value returned.  An error of
\* __enter__ skips body and __exit__; an error of the body runs __exit__ and
\* propagates unless __exit__ raises itself.
decorated_dict(fs, w, arg, fb, io, dir) ==
    LET key == key_func(w.outer_key, w.inner_key, arg) IN
    IF instantiate(w.cls) # None
    THEN [raised |-> instantiate(w.cls), val |-> None, files |-> fs, events |-> <<>>,
          key |-> None, map |-> EmptyMap]
    ELSE The({
        IF e.raised # None
        THEN [raised |-> e.raised, val |-> None, files |-> fs, events |-> e.events,
              key |-> None, map |-> EmptyMap]
        ELSE The({
            The({
                [raised |-> IF x.raised # None THEN x.raised ELSE b.raised,
                 val |-> IF x.raised # None \/ b.raised # None THEN None ELSE b.val,
                 files |-> x.files, events |-> e.events \o b.events \o x.events,
                 key |-> IF IsExecuteOnly(w.access) THEN None ELSE key, map |-> b.map]
                : x \in {exit(b.files, w.access, e.file_path, b.map, io)}})
            : b \in {read_execute_write(fs, e.file_path, e.map, w.access, key, fb)}})
        : e \in {enter(fs, w.access, w.file_path, dir)}})

\* The closure `decorated` of SingleValueCache._decorate: a new instance, then
\* _read_execute_write, whose first call after the 'e' shortcut is
\* self._key_func.
decorated_single(fs, w, arg, fb, io) ==
    LET f == call_func(fs, fb) IN
    IF instantiate(w.cls) # None
    THEN [raised |-> instantiate(w.cls), val |-> None, files |-> fs, events |-> <<>>,
          key |-> None, map |-> EmptyMap]
    ELSE IF IsExecuteOnly(w.access)
    THEN [raised |-> f.raised, val |-> IF f.raised # None THEN None ELSE f.ret,
          files |-> f.files, events |-> <<"compute">>, key |-> None, map |-> EmptyMap]
    ELSE [raised |-> "NotImplementedError", val |-> None, files |-> fs, events |-> <<>>,
          key |-> None, map |-> EmptyMap]

decorated(fs, w, arg, fb, io, dir) ==
    IF w.cls = "CacheDict" THEN decorated_dict(fs, w, arg, fb, io, dir)
    ELSE decorated_single(fs, w, arg, fb, io)

\* The closure `decorated` of CacheDict._decorate for a function f that, when
\* invoked with arg, calls the same wrapper with inner_arg and returns "v1":
\* the inner call runs, from __enter__ to __exit__, during the compute step
\* of the outer one, on the files as the outer __enter__ found them; the outer
\* __exit__ then flushes the outer mapping over the files the inner call left.
\* ran tells whether f was invoked.
nested_dict(fs, w, arg, inner_arg, io, dir) ==
    LET key == key_func(w.outer_key, w.inner_key, arg) IN
    The({
        IF e.raised # None
        THEN [raised |-> e.raised, val |-> None, files |-> fs, events |-> e.events,
              key |-> None, map |-> EmptyMap, ran |-> FALSE]
        ELSE The({
            The({
                [raised |-> IF x.raised # None THEN x.raised
                            ELSE IF b.raised = "FuncError" THEN i.raised
                            ELSE b.raised,
                 val |-> IF x.raised # None \/ b.raised # None THEN None ELSE b.val,
                 files |-> x.files, events |-> e.events \o b.events \o x.events,
                 key |-> IF IsExecuteOnly(w.access) THEN None ELSE key, map |-> b.map,
                 ran |-> Count(b.events, "compute") > 0]
                : x \in {exit(IF Count(b.events, "compute") > 0 THEN i.files ELSE fs,
                              w.access, e.file_path, b.map, io)}})
            : b \in {read_execute_write(fs, e.file_path, e.map, w.access, key,
                                        IF i.raised # None THEN Raises
                                        ELSE Returns("v1"))}})
        : e \in {enter(fs, w.access, w.file_path, dir)},
          i \in {decorated_dict(fs, w, inner_arg, Returns("v1"), "ok", dir)}})

\* The wrapper of a function that calls the wrapper again is called.
NestedCall(arg, inner_arg, io) ==
    /\ nops < MaxOps
    /\ wrapper.defined
    /\ wrapper.cls = "CacheDict"
    /\ arg # inner_arg
    /\ \E r \in {nested_dict(files, wrapper, arg, inner_arg, io, cache_dir)} :
        /\ Count(r.events, "flush") = 0 => io = "ok"
        /\ files' = r.files
        /\ last' = [Report("nested", wrapper.cls, IF r.raised = None THEN "ok" ELSE r.raised)
                        EXCEPT !.arg = arg, !.key = r.key, !.val = r.val, !.events = r.events,
                               !.loc = wrapper.file_path, !.map = r.map, !.io = io,
                               !.before = files[wrapper.file_path].kind,
                               !.prior = files[wrapper.file_path].map]
        /\ nops' = nops + 1
        /\ UNCHANGED <<cache_dir, sess, wrapper>>

\* The wrapper is called with the argument arg.
Call(arg, fb, io) ==
    /\ nops < MaxOps
    /\ wrapper.defined
    /\ \E r \in {decorated(files, wrapper, arg, fb, io, cache_dir)} :
        /\ Count(r.events, "flush") = 0 => io = "ok"
        /\ Count(r.events, "compute") = 0 => fb = Returns("v1")
        /\ files' = r.files
        /\ last' = [Report("call", wrapper.cls, IF r.raised = None THEN "ok" ELSE r.raised)
                        EXCEPT !.arg = arg, !.key = r.key, !.val = r.val, !.events = r.events,
                               !.loc = wrapper.file_path, !.map = r.map, !.fb = fb, !.io = io,
                               !.before = files[wrapper.file_path].kind]
        /\ nops' = nops + 1
        /\ UNCHANGED <<cache_dir, sess, wrapper>>

-----------------------------------------------------------------------------
(* The hasher (hash.py) *)

\* Python values.  k is the type; cls the class path of an instance of a
\* user class; n the number of an int; str the characters of a str; elems
\* the elements of a set; items the items of a list or tuple; kv the (key,
\* value) items of a dict in insertion order, or those of vars(obj) of an
\* instance.  A field a type does not use is empty.
PyVal(k) == [k |-> k, cls |-> None, n |-> 0, str |-> "", elems |-> {},
             items |-> <<>>, kv |-> <<>>]

PyInt(n) == [PyVal("int") EXCEPT !.n = n]

PyStr(str) == [PyVal("str") EXCEPT !.str = str]

PyNone == PyVal("none")

PySet(elems) == [PyVal("set") EXCEPT !.elems = elems]

PyList(items) == [PyVal("list") EXCEPT !.items = items]

PyTuple(items) == [PyVal("tuple") EXCEPT !.items = items]

PyDict(kv) == [PyVal("dict") EXCEPT !.kv = kv]

\* An instance of a class with a __dict__ (has_dict) or with __slots__.
PyObj(cls, has_dict, attrs) ==
    [PyVal(IF has_dict THEN "obj" ELSE "slots") EXCEPT !.cls = cls, !.kv = attrs]

\* The order of str keys under sorted(): by code point.
KeyRank(key) ==
    CASE key = "__class_path__" -> 1
      [] key = "a" -> 2
      [] key = "b" -> 3
      [] key = "counter" -> 4
      [] key = "foo" -> 5
      [] key = "seen" -> 6

\* sort_keys=True: the items of a dict ordered by key.
RECURSIVE sort_keys(_)
sort_keys(items) ==
    IF items = <<>> THEN <<>>
    ELSE LET i == CHOOSE i \in DOMAIN items :
                    \A j \in DOMAIN items : KeyRank(items[i][1]) <= KeyRank(items[j][1])
             rest == [j \in 1..(Len(items) - 1) |->
                        IF j < i THEN items[j] ELSE items[j + 1]]
         IN <<items[i]>> \o sort_keys(rest)

\* '.'.join((obj_class.__module__, obj_class.__name__))
class_path(obj) == IF obj.k = "set" THEN "builtins.set" ELSE obj.cls

\* vars(obj) if hasattr(obj, '__dict__') else {}
vars_dict(obj) == IF obj.k = "obj" THEN obj.kv ELSE <<>>

\* A token tree of a JSON text: t is the kind of token, n the number, str
\* the characters of a string, arr the elements of an array, obj the (key,
\* value) members of an object, text the tree, if any, of the JSON text that
\* is the content of a string.
Json(t) == [t |-> t, n |-> 0, str |-> "", arr |-> <<>>, obj |-> <<>>, text |-> <<>>]

\* _json_dumps: the JSON text, as the tree of its tokens (the text of a tree
\* is unambiguous, so two texts are equal exactly when their trees are).  A
\* list or tuple is an array, a dict an object with its keys sorted, and any
\* other value is replaced by what _json_default returns for it: a str
\* holding the JSON text of dict(__class_path__=class_path, **vars_dict),
\* which is then written as a JSON string.
RECURSIVE json_dumps(_)
json_dumps(obj) ==
    CASE obj.k = "int" -> [Json("num") EXCEPT !.n = obj.n]
      [] obj.k = "str" -> [Json("str") EXCEPT !.str = obj.str]
      [] obj.k = "none" -> Json("null")
      [] obj.k \in {"list", "tuple"} ->
            [Json("arr") EXCEPT !.arr = [i \in DOMAIN obj.items |->
                                            json_dumps(obj.items[i])]]
      [] obj.k = "dict" ->
            [Json("obj") EXCEPT !.obj =
                LET items == sort_keys(obj.kv) IN
                [i \in DOMAIN items |-> <<items[i][1], json_dumps(items[i][2])>>]]
      [] OTHER ->
            [Json("str") EXCEPT !.text =
                <<json_dumps(PyDict(<<<<"__class_path__", PyStr(class_path(obj))>>>>
                                     \o vars_dict(obj)))>>]

\* get_hash(objects) == _json_dumps(tuple(objects))
json_hash(objects) == json_dumps(PyTuple(objects))

\* The hash_objects of CacheDict._key_func under the default strategy, for a
\* call func(arg) where func is the function or bound method named name:
\* [func.__name__, func_args, func_kwargs], with func.__self__ put in front
\* when func is a bound method (bound is <<func.__self__>> then, else <<>>).
hash_objects(bound, name, arg) ==
    bound \o <<PyStr(name), PyTuple(<<arg>>), PyDict(<<>>)>>

\* == of two Python values of the model: dicts and vars() compare as sets of
\* items, everything else by type and content.
py_eq(x, y) ==
    IF x.k \in {"dict", "obj"} /\ y.k = x.k /\ x.cls = y.cls
    THEN {x.kv[i] : i \in DOMAIN x.kv} = {y.kv[i] : i \in DOMAIN y.kv}
    ELSE x = y

\* The values the hasher is given.
Elems == {1, 2, 3}

PyAtoms == {PyInt(1), PyInt(2), PyStr("1"), PyStr("None"), PyNone}

PySets == {PySet(S) : S \in SUBSET Elems}

PyDicts ==
    {PyDict(<<<<k1, PyInt(v1)>>, <<k2, PyInt(v2)>>>>) :
        k1 \in {"a", "b"}, k2 \in {"a", "b"}, v1 \in {1, 2}, v2 \in {1, 2}}
    \ {PyDict(<<<<k, PyInt(v1)>>, <<k, PyInt(v2)>>>>) :
        k \in {"a", "b"}, v1 \in {1, 2}, v2 \in {1, 2}}

PySeqs == {PyList(<<PyInt(1), PyInt(2)>>), PyTuple(<<PyInt(1), PyInt(2)>>),
           PyTuple(<<PyInt(2), PyInt(1)>>)}

TestClasses == {"tests.TestObject", "tests.OtherTestObject"}

AttrValues == PyAtoms \cup {PySet({1}), PySet({2})} \cup PySeqs

PyObjs ==
    {PyObj(c, TRUE, <<<<"foo", a>>>>) : c \in TestClasses, a \in AttrValues}

PyValues == PyAtoms \cup PySets \cup PyDicts \cup PySeqs \cup PyObjs

\* get_hash([x]) and get_hash([y]) are computed for two values, once.
Hash(x, y) ==
    /\ nops = 0
    /\ nops' = nops + 1
    /\ last' = [Report("get_hash", "hash", "ok")
                    EXCEPT !.arg = <<x, y>>,
                           !.val = <<json_hash(<<x>>), json_hash(<<y>>)>>]
    /\ UNCHANGED <<cache_dir, files, sess, wrapper>>

\* The instances whose bound method sleep is decorated: a
\* TestObjectWithCounter at each value of its counter, and an object that
\* keeps what it has seen in a set, at each content of that set.
Instances ==
    {PyObj("tests.TestObjectWithCounter", TRUE,
           <<<<"foo", PyInt(1)>>, <<"counter", PyInt(c)>>>>) : c \in {0, 1, 2}}
    \cup {PyObj("tests.Seen", TRUE, <<<<"seen", PySet(S)>>>>) : S \in {{}, {1}, {1, 2}}}

\* CacheDict._key_func under the default strategy is computed for the call
\* sleep(arg) of the bound method of an instance in two of its states, once.
KeyFunc(self1, self2, arg) ==
    /\ nops = 0
    /\ nops' = nops + 1
    /\ last' = [Report("key_func", "CacheDict", "ok")
                    EXCEPT !.arg = <<self1, self2>>,
                           !.val = <<json_hash(hash_objects(<<self1>>, "sleep", arg)),
                                     json_hash(hash_objects(<<self2>>, "sleep", arg))>>]
    /\ UNCHANGED <<cache_dir, files, sess, wrapper>>

-----------------------------------------------------------------------------
(* Specifications *)

\* The policies and paths given to the CacheDict objects used as context
\* managers: a session looks only at the r and the w of its policy.
SessionAccess == {{"r"}, {"e"}, {"e", "w"}, {"r", "e", "w"}}

SessionPaths == {COMP_CACHE_FILE_NAME, Join(DEFAULT_CACHE_DIR)}

\* The cache files at the start: none, or a pickle of another program in the
\* default cache directory.
InitFiles ==
    {[l \in Locs |-> NoFile],
     [l \in Locs |-> IF l = Join(DEFAULT_CACHE_DIR) THEN OtherFile ELSE NoFile]}

\* The state after import and after the construction of the CacheDict objects.
Init ==
    /\ cache_dir = DEFAULT_CACHE_DIR
    /\ files \in InitFiles
    /\ sess \in [Sessions -> {NewCacheDict(p, a) : p \in SessionPaths, a \in SessionAccess}]
    /\ wrapper = NoWrapper
    /\ last = NoReport
    /\ nops = 0

\* Scoped sessions.
NextSessions ==
    \/ \E d \in Dirs : SetCacheDir(d)
    \/ \E s \in Sessions : Enter(s)
    \/ \E s \in Sessions, k \in SessKeys : GetItem(s, k)
    \/ \E s \in Sessions, k \in SessKeys, v \in Values : SetItem(s, k, v)
    \/ \E s \in Sessions, k \in SessKeys \cup {None} : Get(s, k)
    \/ \E s \in Sessions, body \in {"returned", "raised"}, io \in IoModes : Exit(s, body, io)

SpecSessions == Init /\ [][NextSessions]_vars

\* The state after import, with the one default CacheDict object.
InitCalls ==
    /\ cache_dir = DEFAULT_CACHE_DIR
    /\ files \in InitFiles
    /\ sess = [s \in Sessions |-> NewCacheDict(COMP_CACHE_FILE_NAME, {"r", "e", "w"})]
    /\ wrapper = NoWrapper
    /\ last = NoReport
    /\ nops = 0

\* Decorated calls.
NextCalls ==
    \/ \E d \in Dirs : SetCacheDir(d)
    \/ \E cls \in Classes, p \in Paths \cup {None}, a \in Access \cup {NoAccess},
          ok \in OuterKeys \cup {None}, ik \in InnerKeys \cup {None} :
            Decorate(cls, p, a, ok, ik)
    \/ \E arg \in Args, fb \in FuncBehaviours, io \in IoModes : Call(arg, fb, io)
    \/ \E arg \in Args, inner_arg \in Args, io \in IoModes : NestedCall(arg, inner_arg, io)

SpecCalls == InitCalls /\ [][NextCalls]_vars

\* The hasher on pairs of values.
NextHash ==
    \/ \E x \in PyValues, y \in PyValues : Hash(x, y)
    \/ \E self1 \in Instances, self2 \in Instances, arg \in {PyInt(1), PyInt(2)} :
          KeyFunc(self1, self2, arg)

SpecHash == InitCalls /\ [][NextHash]_vars

\* Sessions and decorated calls together, from the state with the default
\* CacheDict objects.
Next == NextSessions \/ NextCalls

Spec == InitCalls /\ [][Next]_vars

-----------------------------------------------------------------------------
(* Properties *)

\* The wrapped callable returns a genuine value and the file system works.
Healthy(r) == r.fb \in {Returns(v) : v \in Values} /\ r.io = "ok"

\* A decorated call whose lookup found an entry other than NoCache.
Hit(r) == r.op = "call" /\ Count(r.events, "hit") = 1

\* A decorated call whose lookup found no entry, or NoCache.
Miss(r) == r.op = "call" /\ Count(r.events, "lookup") = 1 /\ Count(r.events, "hit") = 0

RewAccess == {"r", "e", "w"}

\* C1: for both cache kinds, two successive calls of a decorated callable with
\* the same argument under 'rew', the first on a cache file that does not
\* exist, invoke the callable once in total, and the second call returns the
\* value the first returned.
C1_RewTwiceInvokesOnce ==
    [][(/\ last.op = "call" /\ last'.op = "call"
        /\ wrapper.access = RewAccess
        /\ last.before = "nofile"
        /\ last'.arg = last.arg
        /\ Healthy(last) /\ Healthy(last'))
       => (/\ Count(last.events, "compute") + Count(last'.events, "compute") = 1
           /\ last'.outcome = "ok"
           /\ last'.val = last.val)]_vars

\* C1 for the wrappers of CacheDict alone.
C1_KeyedStore ==
    [][(/\ last.op = "call" /\ last'.op = "call"
        /\ wrapper.cls = "CacheDict"
        /\ wrapper.access = RewAccess
        /\ last.before = "nofile"
        /\ last'.arg = last.arg
        /\ Healthy(last) /\ Healthy(last'))
       => (/\ Count(last.events, "compute") + Count(last'.events, "compute") = 1
           /\ last'.outcome = "ok"
           /\ last'.val = last.val)]_vars

C3_FailedComputePersistsNothing ==
    [][(/\ last'.op = "call"
        /\ "e" \in wrapper.access
        /\ Count(last'.events, "compute") = 1
        /\ last'.fb = Raises
        /\ last'.io = "ok")
       => (last'.outcome = "FuncError" /\ files' = files)]_vars

\* C4: a keyed-store call under a policy with w that puts a value under one
\* fingerprint leaves the entries of the file under all other fingerprints as
\* they were.
C4_PersistKeepsOtherEntries ==
    [][(/\ last'.op = "call"
        /\ "w" \in wrapper.access
        /\ Count(last'.events, "put") = 1
        /\ last'.io = "ok"
        /\ files[last'.loc].kind = "dict")
       => (/\ files'[last'.loc].kind = "dict"
           /\ \A k \in AllKeys \ {last'.key} :
                files'[last'.loc].map[k] = files[last'.loc].map[k])]_vars

\* C5: a decorated call under the policy 'e', of either cache kind, invokes
\* the wrapped callable and neither reads nor writes a cache file.
C5_ExecuteOnlyComputesAndSkipsStorage ==
    [][(last'.op = "call" /\ IsExecuteOnly(wrapper.access))
       => (/\ Count(last'.events, "compute") = 1
           /\ Count(last'.events, "load") = 0
           /\ Count(last'.events, "flush") = 0
           /\ files' = files)]_vars

\* C5 for the wrappers of CacheDict alone.
C5_KeyedStore ==
    [][(last'.op = "call" /\ IsExecuteOnly(wrapper.access) /\ wrapper.cls = "CacheDict")
       => (/\ Count(last'.events, "compute") = 1
           /\ Count(last'.events, "load") = 0
           /\ Count(last'.events, "flush") = 0
           /\ files' = files)]_vars

\* C6: a decorated call under a policy without e whose lookup misses fails
\* with ValueError and does not invoke the wrapped callable (the file system
\* working: a failing flush under 'rw' raises its own error instead).
C6_MissWithoutExecuteFails ==
    (Miss(last) /\ "e" \notin wrapper.access /\ last.io = "ok")
        => (last.outcome = "ValueError" /\ Count(last.events, "compute") = 0)

\* C6's case: policy 'r' on a cache file that does not exist.
C6_Witness ==
    /\ Miss(last)
    /\ wrapper.access = {"r"}
    /\ last.before = "nofile"
    /\ last.outcome = "ValueError"

\* C7: a decorated call of the keyed store under a policy with w and without
\* e that does not hit, on a cache file that is absent or holds a mapping,
\* fails with ValueError and leaves every cache file, in existence and
\* content, what it was before the call.
C7_WriteWithoutExecuteIsInert ==
    [][(/\ last'.op = "call"
        /\ wrapper.cls = "CacheDict"
        /\ "w" \in wrapper.access /\ "e" \notin wrapper.access
        /\ ~Hit(last')
        /\ last'.io = "ok"
        /\ last'.before \in {"nofile", "dict"})
       => (last'.outcome = "ValueError" /\ files' = files)]_vars

\* C8: when a session with w in its policy has flushed its mapping on exit
\* and the next operation enters a session with r in its policy on the same
\* file, reading any key K, under which the flushed mapping held a value V,
\* from the mapping handed to the new body returns V.
C8_SessionRoundTrip ==
    [][(/\ last.op = "exit"
        /\ last.events = <<"flush">>
        /\ last.io = "ok"
        /\ last'.op = "enter"
        /\ last'.events = <<"load">>
        /\ last'.loc = last.loc)
       => (/\ last'.outcome = "ok"
           /\ sess'[last'.who].open
           /\ \A k \in AllKeys :
                last.map[k] \in Values
                    => getitem(sess'[last'.who].obj, k).val = last.map[k])]_vars

\* C8's case: the fourth operation enters a session and loads a mapping that
\* holds a value, which only enter, assign, exit with a flush can have put
\* into the file.
C8_Witness ==
    /\ nops = 4
    /\ last.op = "enter"
    /\ last.outcome = "ok"
    /\ \E k \in SessKeys : last.map[k] \in Values /\ sess[last.who].obj[k] = last.map[k]

\* C9: on the exit of a session whose policy contains w, the file that
\* self.file_path names then holds the whole mapping as it stood at exit
\* (the file system working), whether the body returned or raised, and the
\* body's error reaches the caller; without w the exit writes no file.
C9_ExitFlushesWholeMapping ==
    [][\A s \in Sessions :
        (last'.op = "exit" /\ last'.who = s)
        => IF "w" \in sess[s].access
           THEN /\ last'.events = <<"flush">>
                /\ last'.io = "ok"
                     => /\ files' = [files EXCEPT ![OsLoc(sess[s].file_path)] =
                                        DictFile(sess[s].obj)]
                        /\ last'.outcome = IF last'.arg = "raised" THEN "BodyError"
                                           ELSE "ok"
           ELSE /\ last'.events = <<>>
                /\ files' = files
                /\ last'.outcome = IF last'.arg = "raised" THEN "BodyError" ELSE "ok"]_vars

\* C9's case: a body that assigned a value raised, and the exit flushed the
\* mapping with that value.
C9_Witness ==
    /\ last.op = "exit"
    /\ last.arg = "raised"
    /\ last.outcome = "BodyError"
    /\ last.events = <<"flush">>
    /\ files[last.loc] = DictFile(last.map)
    /\ \E k \in SessKeys : last.map[k] \in Values

\* C10: after the exit of a session the object holds no mapping and the
\* mapping handed to the body is empty, whatever the outcome of the body and
\* of the flush.
C10_ExitAlwaysClears ==
    \A s \in Sessions :
        (last.op = "exit" /\ last.who = s)
            => (~sess[s].has_dict /\ sess[s].obj = EmptyMap)


\* C11: CacheDict.get on a cache file that is absent or holds a mapping never
\* fails and never modifies a file; for key None it returns the whole mapping
\* of the file, for a key K the entry under K, or NoCache when there is none.
C11_SnapshotNeverFails ==
    [][(last'.op = "get" /\ last'.before \in {"nofile", "dict"})
       => (/\ last'.outcome = "ok"
           /\ files' = files
           /\ IF last'.key = None
              THEN last'.map = files[last'.loc].map
              ELSE last'.val = getitem(files[last'.loc].map, last'.key).val)]_vars

\* C12: a decorated call of the keyed store, under a policy other than 'e',
\* on a cache file that holds a value of another type than the mapping type
\* fails with ValueError and leaves every file as it was.
C12_ForeignFileIsRefused ==
    [][(/\ last'.op = "call"
        /\ wrapper.cls = "CacheDict"
        /\ ~IsExecuteOnly(wrapper.access)
        /\ last'.before = "other"
        /\ last'.io = "ok")
       => (last'.outcome = "ValueError" /\ files' = files)]_vars

\* C12 for the policies with r.
C12_WithRead ==
    [][(/\ last'.op = "call"
        /\ wrapper.cls = "CacheDict"
        /\ "r" \in wrapper.access
        /\ last'.before = "other")
       => (last'.outcome = "ValueError" /\ files' = files)]_vars

\* C13: for two sets, and for two dicts, get_hash([x]) = get_hash([y])
\* exactly when x = y (same elements, same key/value pairs, in any order).
C13_SetAndMappingFingerprints ==
    (/\ last.op = "get_hash"
     /\ last.arg[1].k \in {"set", "dict"}
     /\ last.arg[2].k = last.arg[1].k)
        => (last.val[1] = last.val[2] <=> py_eq(last.arg[1], last.arg[2]))

\* C13 for dicts alone.
C13_Mappings ==
    (/\ last.op = "get_hash"
     /\ last.arg[1].k = "dict"
     /\ last.arg[2].k = "dict")
        => (last.val[1] = last.val[2] <=> py_eq(last.arg[1], last.arg[2]))

\* C14: two instances of the same class have equal hashes exactly when their
\* vars() are equal, and two instances of different classes have different
\* hashes.
C14_ObjectFingerprints ==
    (/\ last.op = "get_hash"
     /\ last.arg[1].k = "obj"
     /\ last.arg[2].k = "obj")
        => (last.val[1] = last.val[2] <=> py_eq(last.arg[1], last.arg[2]))

\* C14 for attribute values that are numbers, strs or None.
C14_AtomAttributes ==
    (/\ last.op = "get_hash"
     /\ last.arg[1].k = "obj"
     /\ last.arg[2].k = "obj"
     /\ last.arg[1].kv[1][2] \in PyAtoms
     /\ last.arg[2].kv[1][2] \in PyAtoms)
        => (last.val[1] = last.val[2] <=> py_eq(last.arg[1], last.arg[2]))

\* C15: under the default key strategy two calls of the same bound method
\* with the same argument have the same fingerprint exactly when the
\* attribute state of the instance is the same at the two calls.
C15_MethodFingerprintCoversState ==
    last.op = "key_func"
        => (last.val[1] = last.val[2] <=> py_eq(last.arg[1], last.arg[2]))

\* C15 for the instances whose state is a counter.
C15_CounterState ==
    (/\ last.op = "key_func"
     /\ last.arg[1].cls = "tests.TestObjectWithCounter"
     /\ last.arg[2].cls = "tests.TestObjectWithCounter")
        => (last.val[1] = last.val[2] <=> py_eq(last.arg[1], last.arg[2]))

\* C16: the first call of a callable decorated with SingleValueCache under
\* 'rew', on a cache file that does not exist, invokes the callable once,
\* returns its value and leaves a file that holds a value and no mapping.
C16_SingleValueProtocol ==
    [][(/\ last'.op = "call"
        /\ wrapper.cls = "SingleValueCache"
        /\ wrapper.access = RewAccess
        /\ last'.before = "nofile"
        /\ Healthy(last'))
       => (/\ last'.outcome = "ok"
           /\ Count(last'.events, "compute") = 1
           /\ last'.val = last'.fb.ret
           /\ files'[last'.loc].kind = "other")]_vars

C18_KeyStrategies ==
    [][/\ (/\ last'.op = "decorate"
           /\ last'.who = "CacheDict"
           /\ last'.outer_key # None
           /\ last'.inner_key # None)
            => (/\ last'.outcome = "ValueError"
                /\ ~wrapper'.defined
                /\ files' = files)
       /\ (/\ last'.op = "call"
           /\ last'.who = "CacheDict"
           /\ last'.key # None)
            => (/\ ~(wrapper.outer_key # None /\ wrapper.inner_key # None)
                /\ wrapper.outer_key # None => last'.key = wrapper.outer_key
                /\ (wrapper.outer_key = None /\ wrapper.inner_key # None)
                    => last'.key = (IF last'.arg = "a" THEN "k_a" ELSE "k_b")
                /\ (wrapper.outer_key = None /\ wrapper.inner_key = None)
                    => last'.key = (IF last'.arg = "a" THEN HashA ELSE HashB))]_vars

\* C18's case: a decoration with both keys has been rejected.
C18_Witness ==
    /\ last.op = "decorate"
    /\ last.who = "CacheDict"
    /\ last.outer_key # None
    /\ last.inner_key # None
    /\ last.outcome = "ValueError"
    /\ ~wrapper.defined

\* A call through a wrapper with only an inner key has stored under the
\* parsed key.
C18_InnerKeyUsed ==
    /\ last.op = "call"
    /\ wrapper.defined
    /\ wrapper.cls = "CacheDict"
    /\ wrapper.outer_key = None
    /\ wrapper.inner_key # None
    /\ last.arg = "b"
    /\ last.key = "k_b"
    /\ Count(last.events, "put") = 1

\* C19: a session's flush goes to its path resolved against the cache
\* directory, whatever its access policy: after an exit that flushed, the
\* file at resolve_filepath(file_path, cache_dir) holds the session's mapping.
C19_FlushGoesToResolvedPath ==
    [][(/\ last'.op = "exit"
        /\ Count(last'.events, "flush") = 1
        /\ last'.io = "ok")
        => files'[resolve_filepath(sess[last'.who].file_path, cache_dir)]
                = DictFile(last'.map)]_vars

\* The part of C19 that holds: a session whose path is absolute when it exits
\* (given so, or resolved by an __enter__ with r) flushes to that path.
C19_AbsolutePath ==
    [][(/\ last'.op = "exit"
        /\ Count(last'.events, "flush") = 1
        /\ last'.io = "ok"
        /\ is_absolute(sess[last'.who].file_path))
        => files'[sess[last'.who].file_path] = DictFile(last'.map)]_vars

\* The positions of event e in a sequence of events.
Positions(events, e) == {i \in DOMAIN events : events[i] = e}

\* C20: in the events of one decorated call, every load and lookup comes
\* before the compute, the compute before every put and flush; with r in the
\* access a compute follows a lookup, and a put follows a compute that
\* returned.
C20_LookupComputePersist ==
    last.op = "call" =>
        /\ Count(last.events, "compute") <= 1
        /\ \A i \in Positions(last.events, "compute") :
            /\ \A j \in Positions(last.events, "load") : j < i
            /\ \A j \in Positions(last.events, "lookup") : j < i
            /\ \A j \in Positions(last.events, "put") : i < j
            /\ \A j \in Positions(last.events, "flush") : i < j
            /\ "r" \in wrapper.access => Count(last.events, "lookup") = 1
        /\ Count(last.events, "put") > 0
            => (/\ Count(last.events, "compute") = 1
                /\ ~last.fb.raises)
        /\ \A i \in Positions(last.events, "put") :
            \A j \in Positions(last.events, "flush") : i < j

\* C20's case: a call under rew that missed: load, lookup, compute, put and
\* flush all happened.
C20_Witness ==
    /\ last.op = "call"
    /\ wrapper.access = {"r", "e", "w"}
    /\ Count(last.events, "lookup") = 1
    /\ Count(last.events, "compute") = 1
    /\ Count(last.events, "put") = 1
    /\ Count(last.events, "flush") = 1
    /\ last.outcome = "ok"

\* C21: a decorated call invokes the wrapped callable at most once; a call
\* that returns without a hit has invoked it exactly once, and a call that
\* returns on a hit has not invoked it.
C21_AtMostOneInvocation ==
    last.op = "call" =>
        /\ Count(last.events, "compute") <= 1
        /\ (last.outcome = "ok" /\ Count(last.events, "hit") = 0)
            => Count(last.events, "compute") = 1
        /\ (last.outcome = "ok" /\ Count(last.events, "hit") > 0)
            => Count(last.events, "compute") = 0

\* C21's case: a call has returned the stored value on a hit, without
\* invoking the callable.
C21_Witness ==
    /\ last.op = "call"
    /\ last.outcome = "ok"
    /\ Count(last.events, "hit") = 1
    /\ Count(last.events, "compute") = 0
    /\ last.val = "v1"

\* A call has returned without a hit, after one invocation.
C21_MissComputesOnce ==
    /\ last.op = "call"
    /\ last.outcome = "ok"
    /\ "r" \in wrapper.access
    /\ Count(last.events, "hit") = 0
    /\ Count(last.events, "compute") = 1

\* C22: the exit of a session with w replaces the file by that session's
\* mapping without merging: an entry another session flushed to the file
\* while this one was open, and which this one's mapping lacks, is gone.
C22_LastWriterWins ==
    [][\A s \in Sessions :
        (/\ last'.op = "exit"
         /\ last'.who = s
         /\ last'.events = <<"flush">>
         /\ last'.io = "ok")
        => (/\ files'[last'.loc] = DictFile(sess[s].obj)
            /\ \A k \in AllKeys :
                (files[last'.loc].map[k] # Missing /\ sess[s].obj[k] = Missing)
                    => files'[last'.loc].map[k] = Missing)]_vars

\* C22's case: a session with r and w has closed on a file that held an entry
\* its mapping lacked.  The session loaded the file when it opened and its
\* body removes nothing, so the entry was flushed by the other session in
\* between; after the exit it is gone.
C22_Witness ==
    /\ last.op = "exit"
    /\ last.events = <<"flush">>
    /\ last.outcome = "ok"
    /\ {"r", "w"} \subseteq sess[last.who].access
    /\ \A s \in Sessions : ~sess[s].open
    /\ \E k \in SessKeys :
        /\ last.prior[k] \in Values
        /\ last.map[k] = Missing
        /\ files[last.loc].map[k] = Missing

\* C23: a call with r in its access whose key holds the falsy value "null"
\* in the file returns "null" on a hit, without invoking the callable and
\* without an error (the file system working); a call that looked the key up
\* in a mapping and returned without a hit found no entry or a NoCache
\* there; no value is an instance of NoCache.
C23_FalsyValueIsAHit ==
    [][(/\ last'.op = "call"
        /\ "r" \in wrapper.access
        /\ last'.key # None
        /\ last'.io = "ok"
        /\ files[wrapper.file_path].kind = "dict")
        => (/\ files[wrapper.file_path].map[last'.key] = "null"
                => (/\ last'.outcome = "ok"
                    /\ last'.val = "null"
                    /\ Count(last'.events, "hit") = 1
                    /\ Count(last'.events, "compute") = 0)
            /\ (last'.outcome = "ok" /\ Count(last'.events, "hit") = 0)
                => files[wrapper.file_path].map[last'.key] \in {Missing, NoCache}
            /\ \A v \in Values : ~IsNoCache(v))]_vars

\* C23's case: a call with r has returned the stored falsy value on a hit.
C23_Witness ==
    /\ last.op = "call"
    /\ "r" \in wrapper.access
    /\ last.before = "dict"
    /\ last.outcome = "ok"
    /\ last.val = "null"
    /\ Count(last.events, "hit") = 1
    /\ Count(last.events, "compute") = 0

\* C24: no cache file holds a mapping with an instance of NoCache as the
\* value of a key.
C24_NoAbsentMarkerPersisted ==
    \A l \in Locs :
        files[l].kind = "dict" => \A k \in AllKeys : files[l].map[k] # NoCache

\* The part of C24 that holds: a lookup of a missing key returns NoCache.
C24_MissReturnsNoCache ==
    [][\A s \in Sessions :
        (/\ last'.op = "getitem"
         /\ last'.who = s
         /\ sess[s].obj[last'.key] = Missing)
        => last'.val = NoCache]_vars

\* C25: after a call under rew whose function, invoked on a miss, called the
\* wrapper again with another key, and which returned, the file holds the
\* entry of the inner call and the entry of the outer call.
C25_NestedKeepsBothEntries ==
    (/\ last.op = "nested"
     /\ wrapper.access = {"r", "e", "w"}
     /\ last.outcome = "ok"
     /\ Count(last.events, "compute") = 1)
    => \A inner_arg \in Args \ {last.arg} :
        key_func(wrapper.outer_key, wrapper.inner_key, inner_arg) # last.key
        => (/\ files[last.loc].kind = "dict"
            /\ files[last.loc].map[last.key] \in Values
            /\ files[last.loc].map[key_func(wrapper.outer_key, wrapper.inner_key,
                                            inner_arg)] \in Values)

\* The part of C25 that holds: the outer call's entry is in the file.
C25_OuterEntryKept ==
    (/\ last.op = "nested"
     /\ wrapper.access = {"r", "e", "w"}
     /\ last.outcome = "ok"
     /\ Count(last.events, "compute") = 1)
    => (/\ files[last.loc].kind = "dict"
        /\ files[last.loc].map[last.key] \in Values)

====
